---- MODULE Spec2Model ----
(***************************************************************************)
(* Model of the economic-calendar scraper of src/python/investing_scraper.py: *)
(* the session cookie cache, the date-range chunk loop, the fetch, the two  *)
(* extractors and the merge.                                                *)
(*                                                                         *)
(* Dates are day numbers (day d is 2025-12-d; timedelta arithmetic is      *)
(* exact on day numbers).  The clock counts ticks of 30 minutes.  Python   *)
(* None is the empty tuple <<>> and a present optional value x is <<x>>.   *)
(* A row identifier is a sequence of tokens, so that startswith and        *)
(* replace can be computed as the code computes them.                      *)
(*                                                                         *)
(* Spec is one caller making calls one after the other; SpecExtract is the *)
(* two extractors applied to a fragment; SpecPair is two calls running as  *)
(* tasks of one event loop.                                                *)
(***************************************************************************)
EXTENDS Integers, Sequences, FiniteSets, TLC

VARIABLES
    now,                      \* datetime.now(), in ticks
    cookies_cache,            \* _cookies_cache            (module global)
    cookies_cache_timestamp,  \* _cookies_cache_timestamp  (module global)
    browser_launches,         \* number of get_cookies_with_selenium() runs so far
    calls,                    \* number of scrape_economic_calendar calls started
    pc,                       \* position of the current call
    date_from, date_to, days_per_chunk, max_events, use_cache, use_date_splitting,
    site,                     \* outcomes the remote endpoint can produce in this call
    cookies,                  \* local: cookies
    all_events,               \* local: all_events
    all_event_ids,            \* local: all_event_ids
    chunk_num,                \* local: chunk_num
    current_date,             \* local: current_date
    chunk_end,                \* local: chunk_end
    http_outcome,             \* what the POST in flight came back with
    api_response,             \* local: api_response
    duplicate_count,          \* local: duplicate_count of the last merged chunk
    posts,                    \* the POSTs issued by this call, in order
    skipped,                  \* chunks of this call left by one of the two `continue`
    result,                   \* the returned report, None while the call runs
    markup,                   \* extraction alone: the html_content given
    chunk_events,             \* extraction alone: extract_events_with_strategy's list
    holidays,                 \* extraction alone: _extract_holidays_fallback's list
    stage,                    \* extraction alone: how far lines 1027-1028 have run
    tasks,                    \* two calls on one event loop: the locals of each call
    running,                  \* two calls: the task the event loop is running, 0 = none
    refreshing,               \* two calls: the tasks inside get_cookies_with_selenium
    run_input,                \* two runs: what the site serves for each day, max_events
    first_run,                \* two runs: the first call's cookies, report and id set
    second_run,               \* two runs: the same for the second call
    lookup,                   \* registries: the lookup called last
    found,                    \* registries: what that lookup returned
    job                       \* InvestingComScraper: the locals of a scrape_date_range call

vars == <<now, cookies_cache, cookies_cache_timestamp, browser_launches, calls, pc,
          date_from, date_to, days_per_chunk, max_events, use_cache,
          use_date_splitting, site, cookies, all_events, all_event_ids, chunk_num,
          current_date, chunk_end, http_outcome, api_response, duplicate_count,
          posts, skipped, result, markup, chunk_events, holidays, stage, tasks,
          running, refreshing, run_input, first_run, second_run, lookup, found,
          job>>

-----------------------------------------------------------------------------
(* Bounds of the model *)

MaxDay == 3          \* small ranges lie in 1..MaxDay
MaxDaysPerChunk == 2 \* largest days_per_chunk tried on small ranges
MaxTime == 4         \* the clock stops at MaxTime ticks
MaxCalls == 2        \* scrape calls per behaviour
MaxChunkNum == 20    \* no call issues more POSTs than this
MaxRows == 4         \* rows of a fragment given to the extractors alone
MaxPairDay == 2      \* two calls on one event loop scrape days 1..MaxPairDay
MaxNameLen == 3      \* longest text tried on the registries letter by letter
MaxCode == 6         \* codes tried on the registries run from -1 to MaxCode
MaxRetryAttempts == 3 \* largest retry_attempts an InvestingComScraper is built with

(* Program constants *)

ScenarioFrom == 2             \* "2025-12-02"
ScenarioTo == 20              \* "2025-12-20"

COOKIES_CACHE_DURATION == 2   \* timedelta(hours=1), in ticks of 30 minutes

chunk_days == 30              \* InvestingComScraper.scrape_date_range
CHRISTMAS == 25               \* datetime(2025, 12, 25)
NEW_YEAR == 32                \* datetime(2026, 1, 1), the day after day 31

-----------------------------------------------------------------------------
(* Python values *)

None == <<>>
Some(x) == <<x>>
IsNone(o) == o = <<>>
Val(o) == o[1]

Min(a, b) == IF a <= b THEN a ELSE b

-----------------------------------------------------------------------------
(* Markup: a fragment is the sequence of its <tr> rows.  A row carries what *)
(* the two extractors read from it.                                         *)

ROW_PREFIX == "eventRowId_"

\* id: the tr's id attribute as tokens (<<>> = no id); event_a: text of
\* "td.event a"; icons: number of i.grayFullBullishIcon; cells: number of td;
\* holiday: cells[2] holds <span class="bold">Holiday</span>; cell3: text of
\* cells[3]; theDay: text of td.theDay ("" = no such cell).
\* The tr's data-event-datetime attribute is NoText until At() sets it.
Row(id, event_a, icons, cells, holiday, cell3, theDay) ==
    [id |-> id, event_a |-> event_a, icons |-> icons, cells |-> cells,
     holiday |-> holiday, cell3 |-> cell3, theDay |-> theDay,
     datetime |-> [layout |-> ""]]

EventRow(tok, name, icons) == Row(<<ROW_PREFIX, tok>>, name, icons, 8, FALSE, "", "")
BareIdRow(name)            == Row(<<ROW_PREFIX>>, name, 1, 8, FALSE, "", "")
HeaderRow(text)            == Row(<<>>, "", 0, 1, FALSE, "", text)
HolidayRow(id, name)       == Row(id, "", 0, 4, TRUE, name, "")
ShortHolidayRow            == Row(<<>>, "", 0, 3, TRUE, "", "")   \* three cells only

\* str.startswith("eventRowId_")
StartsWithPrefix(id) == Len(id) > 0 /\ id[1] = ROW_PREFIX

\* str.replace("eventRowId_", ""): every occurrence goes
RemovePrefix(id) == SelectSeq(id, LAMBDA t : t # ROW_PREFIX)

\* str.strip() followed by replace('\xa0', ' ') on the texts of the model:
\* a text made of whitespace only strips to the empty string
Whitespace == {"", " "}
Strip(s) == IF s \in Whitespace THEN "" ELSE s

\* A date-time text is its layout, written as the strptime format that reads
\* exactly such texts, and the numbers it shows; NoText is the empty string
\* and Words a text without numbers.
RAW_FORMAT == "%Y/%m/%d %H:%M:%S"
ISO_FORMAT == "%Y-%m-%dT%H:%M:%S"
DAY_FORMAT == "%A, %B %d, %Y"

NoText == [layout |-> ""]
Words(w) == [layout |-> "words", words |-> w]
Written(layout, y, mo, d, h, mi, sec) ==
    [layout |-> layout, y |-> y, mo |-> mo, d |-> d, h |-> h, mi |-> mi, sec |-> sec]

At(row, text) == [row EXCEPT !.datetime = text]

IsLeap(y) == (y % 4 = 0 /\ y % 100 # 0) \/ y % 400 = 0
DaysInMonth(y, mo) ==
    IF mo = 2 THEN (IF IsLeap(y) THEN 29 ELSE 28)
    ELSE IF mo \in {4, 6, 9, 11} THEN 30 ELSE 31

\* the date-time strptime builds without checking the calendar
strptime_Unchecked(text, format) ==
    IF text.layout = format
    THEN Some([y |-> text.y, mo |-> text.mo, d |-> text.d, h |-> text.h,
               mi |-> text.mi, sec |-> text.sec])
    ELSE None

\* datetime.strptime(text, format): the datetime, or None for ValueError
strptime(text, format) ==
    IF /\ text.layout = format
       /\ text.y \in 1..9999 /\ text.mo \in 1..12
       /\ text.d \in 1..DaysInMonth(text.y, text.mo)
       /\ text.h \in 0..23 /\ text.mi \in 0..59 /\ text.sec \in 0..59
    THEN Some([y |-> text.y, mo |-> text.mo, d |-> text.d, h |-> text.h,
               mi |-> text.mi, sec |-> text.sec])
    ELSE None

\* dt.isoformat()
isoformat(dt) == Written(ISO_FORMAT, dt.y, dt.mo, dt.d, dt.h, dt.mi, dt.sec)

WeekdayNames == <<"Sunday", "Monday", "Tuesday", "Wednesday", "Thursday", "Friday",
                  "Saturday">>
MonthNames == <<"January", "February", "March", "April", "May", "June", "July",
                "August", "September", "October", "November", "December">>
MonthShift == <<0, 3, 2, 5, 0, 3, 5, 1, 4, 6, 2, 4>>

\* dt.weekday() counted from Sunday = 1
Weekday(y, mo, d) ==
    LET yy == IF mo < 3 THEN y - 1 ELSE y
    IN  ((yy + (yy \div 4) - (yy \div 100) + (yy \div 400) + MonthShift[mo] + d) % 7) + 1

\* dt.strftime('%A, %B %d, %Y')
strftime_day(dt) ==
    [layout |-> DAY_FORMAT, weekday |-> WeekdayNames[Weekday(dt.y, dt.mo, dt.d)],
     month |-> MonthNames[dt.mo], d |-> dt.d, y |-> dt.y]

\* the exceptions the conversion's except clause takes (line 782)
DatetimeExcept == {"ValueError", "TypeError"}

\* lines 777-783: [parsed_datetime, day, raised] for a raw text; `raised` says
\* that strptime's ValueError left process_extracted_events
ConvertDatetime(raw_datetime) ==
    IF raw_datetime = NoText
    THEN [parsed_datetime |-> NoText, day |-> NoText, raised |-> FALSE]
    ELSE LET dt == strptime(raw_datetime, RAW_FORMAT)
         IN  IF ~IsNone(dt)
             THEN [parsed_datetime |-> isoformat(Val(dt)), day |-> strftime_day(Val(dt)),
                   raised |-> FALSE]
             ELSE [parsed_datetime |-> NoText, day |-> NoText,
                   raised |-> "ValueError" \notin DatetimeExcept]

\* process_extracted_events lines 760-770
ImpactOfIcons(n) ==
    IF n >= 3 THEN "High"
    ELSE IF n = 2 THEN "Medium"
    ELSE IF n = 1 THEN "Low"
    ELSE "Medium"

\* soup.select("tr[id^='eventRowId_']")
SelectEventRows(fragment) == SelectSeq(fragment, LAMBDA r : StartsWithPrefix(r.id))

\* process_extracted_events on the rows selected by extract_events_with_strategy
RECURSIVE process_extracted_events(_)
process_extracted_events(raw) ==
    IF raw = <<>> THEN <<>>
    ELSE LET r == Head(raw)
             event_id == IF StartsWithPrefix(r.id) THEN RemovePrefix(r.id) ELSE r.id
             event_name == Strip(r.event_a)
         IN  IF event_name = ""
             THEN process_extracted_events(Tail(raw))
             ELSE <<[datetime |-> r.datetime,
                     parsed_datetime |-> ConvertDatetime(r.datetime).parsed_datetime,
                     day |-> ConvertDatetime(r.datetime).day,
                     event |-> event_name, impact |-> ImpactOfIcons(r.icons),
                     event_id |-> event_id]>>
                  \o process_extracted_events(Tail(raw))

\* extract_events_with_strategy: an exception out of the processing of any row
\* is caught at line 877 and the fragment yields no event at all
extract_events_with_strategy(html_content) ==
    LET raw_events == SelectEventRows(html_content)
    IN  IF \E i \in 1..Len(raw_events) : ConvertDatetime(raw_events[i].datetime).raised
        THEN <<>>
        ELSE process_extracted_events(raw_events)

\* parse_day_header: the text of td.theDay, "" standing for None
parse_day_header(row) == row.theDay

\* parse_holiday_row: None (<<>>) or the holiday record
parse_holiday_row(row) ==
    IF row.cells < 3 THEN None
    ELSE IF ~row.holiday THEN None
    ELSE Some([type |-> "holiday",
               event |-> IF row.cells > 3 THEN row.cell3 ELSE "",
               impact |-> "Holiday",
               event_id |-> IF StartsWithPrefix(row.id) THEN RemovePrefix(row.id)
                            ELSE <<>>,
               day |-> None])

\* the loop with current_day set by the first header only
RECURSIVE HolidaysFrom_FirstHeader(_, _)
HolidaysFrom_FirstHeader(rows, current_day) ==
    IF rows = <<>> THEN <<>>
    ELSE LET row == Head(rows)
             day_header == parse_day_header(row)
             holiday == parse_holiday_row(row)
         IN  IF day_header # ""
             THEN HolidaysFrom_FirstHeader(Tail(rows),
                      IF IsNone(current_day) THEN Some(day_header) ELSE current_day)
             ELSE IF ~IsNone(holiday)
             THEN <<[Val(holiday) EXCEPT !.day = current_day]>>
                  \o HolidaysFrom_FirstHeader(Tail(rows), current_day)
             ELSE HolidaysFrom_FirstHeader(Tail(rows), current_day)

\* _extract_holidays_fallback: the loop over rows, current_day carried along
RECURSIVE HolidaysFrom(_, _)
HolidaysFrom(rows, current_day) ==
    IF rows = <<>> THEN <<>>
    ELSE LET row == Head(rows)
             day_header == parse_day_header(row)
             holiday == parse_holiday_row(row)
         IN  IF day_header # ""
             THEN HolidaysFrom(Tail(rows), Some(day_header))
             ELSE IF ~IsNone(holiday)
             THEN <<[Val(holiday) EXCEPT !.day = current_day]>>
                  \o HolidaysFrom(Tail(rows), current_day)
             ELSE HolidaysFrom(Tail(rows), current_day)

extract_holidays_fallback(html_content) == HolidaysFrom(html_content, None)

\* the two lists joined with the holidays in front
CombinedEvents_HolidaysFirst(primary, fallback) == fallback \o primary

\* line 1029: combined_events = chunk_events + holidays
CombinedEvents(primary, fallback) == primary \o fallback

-----------------------------------------------------------------------------
(* The merge loop of scrape_economic_calendar, lines 1035-1048 *)

\* MergeOne without `all_event_ids.add(event_id)`
MergeOne_NoRecord(acc, event) ==
    IF event.event_id # <<>> /\ event.event_id \in acc.ids
    THEN [acc EXCEPT !.dups = @ + 1]
    ELSE [acc EXCEPT !.events = Append(@, event)]

\* MergeOne with a repeated id overwriting the record kept so far
MergeOne_LastWins(acc, event) ==
    IF event.event_id # <<>> /\ event.event_id \in acc.ids
    THEN [acc EXCEPT !.dups = @ + 1,
                     !.events = [i \in 1..Len(@) |->
                                    IF @[i].event_id = event.event_id THEN event
                                    ELSE @[i]]]
    ELSE [events |-> Append(acc.events, event),
          ids |-> IF event.event_id # <<>> THEN acc.ids \cup {event.event_id}
                  ELSE acc.ids,
          dups |-> acc.dups]

\* MergeOne with the empty event_id treated as an id like any other
MergeOne_EmptyIdKeyed(acc, event) ==
    IF event.event_id \in acc.ids
    THEN [acc EXCEPT !.dups = @ + 1]
    ELSE [events |-> Append(acc.events, event),
          ids |-> acc.ids \cup {event.event_id},
          dups |-> acc.dups]

\* one pass of the loop body: [events, ids, dups] after looking at `event`
MergeOne(acc, event) ==
    IF event.event_id # <<>> /\ event.event_id \in acc.ids
    THEN [acc EXCEPT !.dups = @ + 1]
    ELSE [events |-> Append(acc.events, event),
          ids |-> IF event.event_id # <<>> THEN acc.ids \cup {event.event_id}
                  ELSE acc.ids,
          dups |-> acc.dups]

RECURSIVE MergeEvents(_, _)
MergeEvents(acc, combined_events) ==
    IF combined_events = <<>> THEN acc
    ELSE MergeEvents(MergeOne(acc, Head(combined_events)), Tail(combined_events))

-----------------------------------------------------------------------------
(* Session provider: get_cookies_with_selenium and get_cookies *)

NoCookies == {}                       \* the empty dict returned on failure
CookieSet(n) == {<<"session", n>>}    \* the cookies harvested by launch number n

\* the cache test with the window closed at its end (elapsed <= duration)
CacheValid_Inclusive(cache) ==
    /\ cache
    /\ ~IsNone(cookies_cache)
    /\ ~IsNone(cookies_cache_timestamp)
    /\ now - Val(cookies_cache_timestamp) <= COOKIES_CACHE_DURATION

\* get_cookies lines 550-552: the cached set is used
CacheValid(cache) ==
    /\ cache
    /\ ~IsNone(cookies_cache)
    /\ ~IsNone(cookies_cache_timestamp)
    /\ now - Val(cookies_cache_timestamp) < COOKIES_CACHE_DURATION

\* the cache written whatever the flag says
CacheAfterAcquire_Always(cache, fresh, t) == [set |-> Some(fresh), ts |-> Some(t)]

\* get_cookies lines 561-563: what the cache holds after a browser run that
\* returned `fresh` and ended at time t
CacheAfterAcquire(cache, fresh, t) ==
    IF cache THEN [set |-> Some(fresh), ts |-> Some(t)]
    ELSE [set |-> cookies_cache, ts |-> cookies_cache_timestamp]

\* get_cookies(cache): `fresh` and t are what a browser run would give
get_cookies(cache, fresh, t) ==
    IF CacheValid(cache)
    THEN [cookies |-> Val(cookies_cache), set |-> cookies_cache,
          ts |-> cookies_cache_timestamp, launched |-> FALSE, now |-> now]
    ELSE [cookies |-> fresh, set |-> CacheAfterAcquire(cache, fresh, t).set,
          ts |-> CacheAfterAcquire(cache, fresh, t).ts, launched |-> TRUE,
          now |-> t]

-----------------------------------------------------------------------------
(* Fetcher: what one POST can come back with, and make_api_request's value *)

PyNone == [type |-> "NoneType"]
JsonList == [type |-> "list", len |-> 1]                   \* a non-empty array
JsonDict(keys, data) == [type |-> "dict", keys |-> keys, data |-> data]

\* bool(x) for the values api_response can take
Truthy(v) ==
    CASE v.type = "NoneType" -> FALSE
      [] v.type = "list" -> v.len > 0
      [] v.type = "dict" -> v.keys # {}

\* api_response.get("data", "")
GetData(v) == IF "data" \in v.keys THEN v.data ELSE <<>>

Timeout == [kind |-> "timeout"]                 \* httpx.TimeoutException
Blocked == [kind |-> "status", code |-> 403]    \* raise_for_status: HTTPStatusError
RequestError == [kind |-> "request_error"]      \* httpx.RequestError
BadJson == [kind |-> "bad_json"]                \* json.JSONDecodeError
Unexpected == [kind |-> "unexpected"]           \* any other Exception, e.g. UnicodeDecodeError
Body(v) == [kind |-> "json", body |-> v]        \* status 2xx and a JSON body

\* the exception class the try block of lines 670-701 ends with, "" for none
RaisedBy(o) ==
    CASE o.kind = "timeout" -> "TimeoutException"
      [] o.kind = "status" -> "HTTPStatusError"
      [] o.kind = "request_error" -> "RequestError"
      [] o.kind = "bad_json" -> "JSONDecodeError"
      [] o.kind = "unexpected" -> "UnicodeDecodeError"
      [] o.kind = "json" -> ""

\* isinstance(exc, cls) for the classes above
IsInstance(exc, cls) ==
    \/ cls = exc
    \/ cls = "Exception"
    \/ cls = "RequestError" /\ exc = "TimeoutException"

\* the except clauses without the last two
ExceptClauses_NoCatchAll == {"TimeoutException", "HTTPStatusError", "RequestError"}

\* the except clauses of lines 703, 708, 718, 725 and 730
ExceptClauses ==
    {"TimeoutException", "HTTPStatusError", "RequestError", "JSONDecodeError",
     "Exception"}

\* the exception leaving make_api_request, when no clause takes it
Raise(exc) == [type |-> "raise", exc |-> exc]

\* make_api_request lines 670-739: the returned value for an outcome of the
\* POST; every except clause returns None
make_api_request(o) ==
    IF RaisedBy(o) = "" THEN o.body
    ELSE IF \E cls \in ExceptClauses : IsInstance(RaisedBy(o), cls) THEN PyNone
    ELSE Raise(RaisedBy(o))

\* The fragments the endpoint serves in the model
FragmentA == <<EventRow("a", "CPI", 3), EventRow("b", "GDP", 2)>>
FragmentB == <<EventRow("b", "GDP", 2), BareIdRow("PMI"), EventRow("c", " ", 1)>>
FragmentH == <<HeaderRow("Thursday, December 25, 2025"),
               HolidayRow(<<ROW_PREFIX, "a">>, "Christmas"),
               HolidayRow(<<>>, "Boxing Day"),
               ShortHolidayRow>>
\* a fragment in which an event row and a holiday row carry the same id
FragmentM == <<EventRow("b", "GDP", 2),
               HeaderRow("Thursday, December 25, 2025"),
               HolidayRow(<<ROW_PREFIX, "b">>, "Christmas"),
               HolidayRow(<<ROW_PREFIX, "d">>, "Boxing Day")>>

RichSite == {Timeout, Blocked, RequestError, BadJson, Unexpected, Body(JsonList),
             Body(JsonDict({"data"}, <<>>)), Body(JsonDict({"data"}, FragmentA)),
             Body(JsonDict({"data"}, FragmentB)), Body(JsonDict({"data"}, FragmentH)),
             Body(JsonDict({"data"}, FragmentM))}

QuietSite == {Blocked, Body(JsonDict({"data"}, FragmentA))}

-----------------------------------------------------------------------------
(* The reports of scrape_economic_calendar *)

\* a failure report that hands out what the loop had collected
FailedReport_Partial(msg) ==
    [success |-> FALSE, events |-> all_events, date_range |-> <<date_from, date_to>>,
     total_events |-> 0, total_pages |-> chunk_num, error_message |-> Some(msg)]

\* lines 954-972 and 1072-1092: the four failure returns
FailedReport(msg) ==
    [success |-> FALSE, events |-> <<>>, date_range |-> <<date_from, date_to>>,
     total_events |-> 0, total_pages |-> 0, error_message |-> Some(msg)]

\* a report that counts only the chunks that were merged
SuccessReport_Merged(events) ==
    [success |-> TRUE, events |-> events, date_range |-> <<date_from, date_to>>,
     total_events |-> Len(events), total_pages |-> chunk_num - skipped,
     error_message |-> None]

SuccessReport(events) ==
    [success |-> TRUE, events |-> events, date_range |-> <<date_from, date_to>>,
     total_events |-> Len(events), total_pages |-> chunk_num,
     error_message |-> None]

\* the chunk end without the clip to end_date
ChunkEnd_NoClip(cur, dpc, end_date) == cur + (dpc - 1)

\* line 988
ChunkEnd(cur, dpc, end_date) == Min(cur + (dpc - 1), end_date)

\* line 1053
LimitReached(events) == ~IsNone(max_events) /\ Len(events) >= Val(max_events)

-----------------------------------------------------------------------------
(* Inputs of a call *)

Input(f, t, dpc, me, uc, uds, s) ==
    [date_from |-> f, date_to |-> t, days_per_chunk |-> dpc, max_events |-> me,
     use_cache |-> uc, use_date_splitting |-> uds, site |-> s]

\* small ranges, every chunk width from 1 up, against the rich endpoint
SmallInputs ==
    {Input(f, t, dpc, me, TRUE, TRUE, RichSite) :
        f \in 1..MaxDay, t \in 1..MaxDay, dpc \in 1..MaxDaysPerChunk,
        me \in {None, Some(1), Some(2)}}

\* the two flags, on a one-day range
FlagInputs ==
    {Input(1, 1, 1, None, uc, uds, QuietSite) : uc \in BOOLEAN, uds \in BOOLEAN}

\* chunk widths of 0 and below, which the function accepts as well
OddInputs ==
    {Input(1, t, dpc, me, TRUE, TRUE, QuietSite) :
        t \in {1, MaxDay}, dpc \in {-1, 0}, me \in {None, Some(1)}}

\* the 19-day range of test_date_splitting with the chunk sizes it tries
ScenarioInputs ==
    {Input(ScenarioFrom, ScenarioTo, dpc, None, TRUE, TRUE, QuietSite) :
        dpc \in {1, 2, 3, 5, 7}}

Inputs == SmallInputs \cup FlagInputs \cup OddInputs \cup ScenarioInputs

-----------------------------------------------------------------------------
(* Initial state: the module has just been imported, no call is running *)

Quiescent ==
    /\ now = 0
    /\ cookies_cache = None
    /\ cookies_cache_timestamp = None
    /\ browser_launches = 0
    /\ calls = 0
    /\ pc = "idle"
    /\ date_from = 1 /\ date_to = 1 /\ days_per_chunk = 1 /\ max_events = None
    /\ use_cache = TRUE /\ use_date_splitting = TRUE
    /\ site = QuietSite
    /\ cookies = NoCookies
    /\ all_events = <<>>
    /\ all_event_ids = {}
    /\ chunk_num = 0
    /\ current_date = 1
    /\ chunk_end = 1
    /\ http_outcome = None
    /\ api_response = PyNone
    /\ duplicate_count = 0
    /\ posts = <<>>
    /\ skipped = 0
    /\ result = None

extraction == <<markup, chunk_events, holidays, stage>>
pair == <<tasks, running, refreshing>>
runs == <<run_input, first_run, second_run>>
desk == <<lookup, found>>
apart == <<runs, desk, job>>

NoExtraction ==
    /\ markup = <<>>
    /\ chunk_events = <<>>
    /\ holidays = <<>>
    /\ stage = "off"

NoTasks ==
    /\ tasks = <<>>
    /\ running = 0
    /\ refreshing = {}

NoRuns ==
    /\ run_input = <<>>
    /\ first_run = <<>>
    /\ second_run = <<>>

NoLookup ==
    /\ lookup = <<>>
    /\ found = <<>>

NoJob == job = <<>>

Apart ==
    /\ NoRuns
    /\ NoLookup
    /\ NoJob

Init ==
    /\ Quiescent
    /\ NoExtraction
    /\ NoTasks
    /\ Apart

globals == <<cookies_cache, cookies_cache_timestamp, browser_launches>>
params == <<date_from, date_to, days_per_chunk, max_events, use_cache,
            use_date_splitting, site>>

\* A caller invokes scrape_economic_calendar, some time after the previous call
StartCall ==
    /\ pc = "idle"
    /\ calls < MaxCalls
    /\ \E in \in Inputs, d \in 0..COOKIES_CACHE_DURATION :
        /\ calls = 0 => d = 0          \* the clock starts with the first call
        /\ now + d <= MaxTime
        /\ now' = now + d
        /\ date_from' = in.date_from
        /\ date_to' = in.date_to
        /\ days_per_chunk' = in.days_per_chunk
        /\ max_events' = in.max_events
        /\ use_cache' = in.use_cache
        /\ use_date_splitting' = in.use_date_splitting
        /\ site' = in.site
    /\ calls' = calls + 1
    /\ pc' = "start"
    /\ cookies' = NoCookies
    /\ all_events' = <<>>
    /\ all_event_ids' = {}
    /\ chunk_num' = 0
    /\ current_date' = 1
    /\ chunk_end' = 1
    /\ http_outcome' = None
    /\ api_response' = PyNone
    /\ duplicate_count' = 0
    /\ posts' = <<>>
    /\ skipped' = 0
    /\ result' = None
    /\ UNCHANGED globals
    /\ UNCHANGED <<extraction, pair, apart>>

\* the call without the test of line 953
SessionFailed_Unchecked(c) == FALSE

\* `if not cookies` (line 953)
SessionFailed(c) == c = NoCookies

\* lines 951-985: get_cookies, the two early returns, the loop's initial state
AcquireSession ==
    /\ pc = "start"
    /\ \E ok \in BOOLEAN, d \in 0..1 :
        /\ now + d <= MaxTime
        /\ LET fresh == IF ok THEN CookieSet(browser_launches + 1) ELSE NoCookies
               g == get_cookies(use_cache, fresh, now + d)
           IN  /\ cookies' = g.cookies
               /\ cookies_cache' = g.set
               /\ cookies_cache_timestamp' = g.ts
               /\ now' = g.now
               /\ browser_launches' = IF g.launched THEN browser_launches + 1
                                       ELSE browser_launches
               /\ IF SessionFailed(g.cookies)
                  THEN /\ result' = Some(FailedReport("Impossible de recuperer les cookies"))
                       /\ pc' = "done"
                       /\ UNCHANGED current_date
                  ELSE IF ~use_date_splitting
                  THEN /\ result' = Some(FailedReport("use_date_splitting=False n'est plus supporte"))
                       /\ pc' = "done"
                       /\ UNCHANGED current_date
                  ELSE /\ result' = None
                       /\ pc' = "loop"
                       /\ current_date' = date_from
    /\ all_events' = <<>>
    /\ all_event_ids' = {}
    /\ chunk_num' = 0
    /\ UNCHANGED <<calls, params, chunk_end, http_outcome, api_response,
                   duplicate_count, posts, skipped>>
    /\ UNCHANGED <<extraction, pair, apart>>

\* the request with the ids collected so far sent along as a cursor
ChunkRequest_WithCursor(chunk_from, chunk_to, c) ==
    [dateFrom |-> chunk_from, dateTo |-> chunk_to, limit_from |-> 0,
     pids |-> IF all_event_ids = {} THEN <<>> ELSE <<"pids[]">>, cookies |-> c]

\* lines 1000-1012 and 639-657: the form of the POST for one chunk
ChunkRequest(chunk_from, chunk_to, c) ==
    [dateFrom |-> chunk_from, dateTo |-> chunk_to, limit_from |-> 0,
     pids |-> <<>>, cookies |-> c]

\* lines 987-1012: the loop test holds, the chunk is cut and its POST is sent
IssueFetch ==
    /\ pc = "loop"
    /\ current_date <= date_to
    /\ chunk_num < MaxChunkNum
    /\ chunk_end' = ChunkEnd(current_date, days_per_chunk, date_to)
    /\ chunk_num' = chunk_num + 1
    /\ posts' = Append(posts, ChunkRequest(current_date, chunk_end', cookies))
    /\ pc' = "await"
    /\ UNCHANGED <<now, globals, calls, params, cookies, all_events, all_event_ids,
                   current_date, http_outcome, api_response, duplicate_count,
                   skipped, result>>
    /\ UNCHANGED <<extraction, pair, apart>>

\* lines 696-739 and 1000: the POST completes and make_api_request returns
Respond ==
    /\ pc = "await"
    /\ \E o \in site :
        LET v == make_api_request(o)
        IN  /\ http_outcome' = Some(o)
            /\ IF v.type = "raise"
               THEN \* an exception out of line 1000 is caught at line 1081
                    /\ result' = Some(FailedReport("Erreur generale"))
                    /\ pc' = "done"
                    /\ UNCHANGED api_response
               ELSE /\ api_response' = v
                    /\ pc' = "handle"
                    /\ UNCHANGED result
    /\ UNCHANGED <<now, globals, calls, params, cookies, all_events, all_event_ids,
                   chunk_num, current_date, chunk_end, duplicate_count, posts,
                   skipped>>
    /\ UNCHANGED <<extraction, pair, apart>>

\* the loop body without the test of line 1014
IsFetchFailure_Unchecked(v) == FALSE

\* `if not api_response` (line 1014)
IsFetchFailure(v) == ~Truthy(v)

\* lines 1014-1057: the rest of the loop body
HandleResponse ==
    /\ pc = "handle"
    /\ http_outcome' = None
    /\ IF IsFetchFailure(api_response)
       THEN \* lines 1014-1017
            /\ current_date' = chunk_end + 1
            /\ skipped' = skipped + 1
            /\ pc' = "loop"
            /\ UNCHANGED <<all_events, all_event_ids, duplicate_count, result>>
       ELSE IF api_response.type # "dict"
       THEN \* line 1020 raises AttributeError, caught at line 1081
            /\ result' = Some(FailedReport("Erreur generale"))
            /\ pc' = "done"
            /\ UNCHANGED <<all_events, all_event_ids, duplicate_count, current_date,
                           skipped>>
       ELSE IF GetData(api_response) = <<>>
       THEN \* lines 1021-1024
            /\ current_date' = chunk_end + 1
            /\ skipped' = skipped + 1
            /\ pc' = "loop"
            /\ UNCHANGED <<all_events, all_event_ids, duplicate_count, result>>
       ELSE LET html_content == GetData(api_response)
                combined_events == CombinedEvents(extract_events_with_strategy(html_content),
                                                  extract_holidays_fallback(html_content))
                merged == MergeEvents([events |-> all_events, ids |-> all_event_ids,
                                       dups |-> 0], combined_events)
            IN  /\ all_events' = merged.events
                /\ all_event_ids' = merged.ids
                /\ duplicate_count' = merged.dups
                /\ UNCHANGED skipped
                /\ IF LimitReached(merged.events)
                   THEN \* break, then lines 1063-1070
                        /\ result' = Some(SuccessReport(merged.events))
                        /\ pc' = "done"
                        /\ UNCHANGED current_date
                   ELSE /\ current_date' = chunk_end + 1
                        /\ pc' = "loop"
                        /\ UNCHANGED result
    /\ UNCHANGED <<now, globals, calls, params, cookies, chunk_num, chunk_end,
                   api_response, posts>>
    /\ UNCHANGED <<extraction, pair, apart>>

\* the loop test fails: lines 1063-1070
Finalize ==
    /\ pc = "loop"
    /\ ~(current_date <= date_to)
    /\ result' = Some(SuccessReport(all_events))
    /\ pc' = "done"
    /\ UNCHANGED <<now, globals, calls, params, cookies, all_events, all_event_ids,
                   chunk_num, current_date, chunk_end, http_outcome, api_response,
                   duplicate_count, posts, skipped>>
    /\ UNCHANGED <<extraction, pair, apart>>

\* the task running the call is cancelled while it is suspended in the POST
\* of line 1000: CancelledError is not an Exception, so no except clause of
\* make_api_request or of lines 1072-1092 takes it and the call ends without
\* a report
Cancel ==
    /\ pc = "await"
    /\ pc' = "cancelled"
    /\ result' = None
    /\ UNCHANGED <<now, globals, calls, params, cookies, all_events, all_event_ids,
                   chunk_num, current_date, chunk_end, http_outcome, api_response,
                   duplicate_count, posts, skipped>>
    /\ UNCHANGED <<extraction, pair, apart>>

\* the call has returned its report or has been unwound; its locals are gone
Return ==
    /\ pc \in {"done", "cancelled"}
    /\ pc' = "idle"
    /\ cookies' = NoCookies
    /\ all_events' = <<>>
    /\ all_event_ids' = {}
    /\ chunk_num' = 0
    /\ current_date' = 1
    /\ chunk_end' = 1
    /\ http_outcome' = None
    /\ api_response' = PyNone
    /\ duplicate_count' = 0
    /\ posts' = <<>>
    /\ skipped' = 0
    /\ result' = None
    /\ UNCHANGED <<now, globals, calls, params>>
    /\ UNCHANGED <<extraction, pair, apart>>

Next ==
    \/ StartCall
    \/ Return
    \/ AcquireSession
    \/ IssueFetch
    \/ Respond
    \/ Cancel
    \/ HandleResponse
    \/ Finalize

Spec == Init /\ [][Next]_vars

-----------------------------------------------------------------------------
(* The two extractors alone: lines 1027-1028 applied to a fragment *)

OTHER_FORMAT == "%Y-%m-%d %H:%M:%S"

\* the kinds of row a fragment is made of
RowKinds ==
    {At(EventRow("a", "CPI", 3), Written(RAW_FORMAT, 2025, 12, 25, 13, 30, 0)),
     At(EventRow("b", "Christmas Day", 0), Written(OTHER_FORMAT, 2025, 12, 25, 0, 0, 0)),
     At(EventRow("c", "GDP", 2), Written(RAW_FORMAT, 2025, 2, 30, 10, 0, 0)),
     At(EventRow("d", " ", 1), Written(RAW_FORMAT, 2024, 2, 29, 23, 59, 59)),
     At(BareIdRow("PMI"), Words("All Day")),
     At(EventRow("e", "Retail Sales", 1), Written(RAW_FORMAT, 2024, 2, 29, 8, 5, 9)),
     EventRow("f", "Trade Balance", 0),
     HeaderRow("Thursday, December 25, 2025"),
     HeaderRow("Friday, December 26, 2025"),
     HolidayRow(<<ROW_PREFIX, "h">>, "Christmas"),
     ShortHolidayRow}

Fragments == UNION {[1..n -> RowKinds] : n \in 0..MaxRows}

InitExtract ==
    /\ Quiescent
    /\ markup \in Fragments
    /\ chunk_events = <<>>
    /\ holidays = <<>>
    /\ stage = "html"
    /\ NoTasks
    /\ Apart

scraper == <<now, globals, calls, pc, params, cookies, all_events, all_event_ids,
             chunk_num, current_date, chunk_end, http_outcome, api_response,
             duplicate_count, posts, skipped, result>>

\* line 1027
ExtractPrimary ==
    /\ stage = "html"
    /\ chunk_events' = extract_events_with_strategy(markup)
    /\ stage' = "primary"
    /\ UNCHANGED <<markup, holidays, scraper, pair, apart>>

\* line 1028
ExtractFallback ==
    /\ stage = "primary"
    /\ holidays' = extract_holidays_fallback(markup)
    /\ stage' = "fallback"
    /\ UNCHANGED <<markup, chunk_events, scraper, pair, apart>>

NextExtract ==
    \/ ExtractPrimary
    \/ ExtractFallback

SpecExtract == InitExtract /\ [][NextExtract]_vars

-----------------------------------------------------------------------------
(* Two calls of scrape_economic_calendar as tasks of one event loop, as the *)
(* async endpoints of app.py run them.  A task holds the loop from the point *)
(* where it is started or resumed to its next await, which is the POST of    *)
(* line 1000; get_cookies is a plain function and has no await.              *)

Tasks == {1, 2}

PairSite == {Blocked, Body(JsonDict({"data"}, FragmentA)),
             Body(JsonDict({"data"}, FragmentB))}

\* the locals of a call; `served` lists the fragments it has merged
NewTask ==
    [pc |-> "new", use_cache |-> TRUE, cookies |-> NoCookies, all_events |-> <<>>,
     all_event_ids |-> {}, current_date |-> 1, chunk_end |-> 1, served |-> <<>>,
     result |-> None]

TaskReport(success, events) ==
    [success |-> success, events |-> events, total_events |-> Len(events)]

InitPair ==
    /\ Quiescent
    /\ NoExtraction
    /\ tasks = [p \in Tasks |-> NewTask]
    /\ running = 0
    /\ refreshing = {}
    /\ Apart

locals == <<calls, pc, params, cookies, all_events, all_event_ids, chunk_num,
            current_date, chunk_end, http_outcome, api_response, duplicate_count,
            posts, skipped, result>>

\* tasks that run whenever they like, as threads would
Runnable_Threads(p) == TRUE

\* the event loop can run p: it is free, or p holds it since it was resumed
Runnable(p) == running \in {0, p}

\* a dedup registry shared by the calls
Registry_Shared(p) == UNION {tasks[q].all_event_ids : q \in Tasks}

\* line 984: all_event_ids is a local of the call
Registry(p) == tasks[p].all_event_ids

\* line 952 and get_cookies lines 547-558: the call starts, the cache is
\* tested, and the browser is launched unless the cached set is used
TaskStart(p) ==
    /\ tasks[p].pc = "new"
    /\ Runnable(p)
    /\ \E uc \in BOOLEAN :
          IF CacheValid(uc)
          THEN /\ tasks' = [tasks EXCEPT ![p].pc = "entered", ![p].use_cache = uc,
                                         ![p].cookies = Val(cookies_cache)]
               /\ UNCHANGED refreshing
          ELSE /\ tasks' = [tasks EXCEPT ![p].pc = "browser", ![p].use_cache = uc]
               /\ refreshing' = refreshing \cup {p}
    /\ running' = p
    /\ UNCHANGED <<now, globals, locals, extraction, apart>>

\* get_cookies lines 558-565: get_cookies_with_selenium has returned
TaskBrowserDone(p) ==
    /\ tasks[p].pc = "browser"
    /\ Runnable(p)
    /\ \E ok \in BOOLEAN, d \in 0..1 :
        /\ now + d <= MaxTime
        /\ LET fresh == IF ok THEN CookieSet(browser_launches + 1) ELSE NoCookies
               c == CacheAfterAcquire(tasks[p].use_cache, fresh, now + d)
           IN  /\ cookies_cache' = c.set
               /\ cookies_cache_timestamp' = c.ts
               /\ now' = now + d
               /\ tasks' = [tasks EXCEPT ![p].pc = "entered", ![p].cookies = fresh]
    /\ browser_launches' = browser_launches + 1
    /\ refreshing' = refreshing \ {p}
    /\ UNCHANGED <<running, locals, extraction, apart>>

\* lines 953-985: the early return on an empty cookie set, the loop's locals
TaskEnter(p) ==
    /\ tasks[p].pc = "entered"
    /\ Runnable(p)
    /\ IF SessionFailed(tasks[p].cookies)
       THEN /\ tasks' = [tasks EXCEPT ![p].pc = "done",
                                      ![p].result = Some(TaskReport(FALSE, <<>>))]
            /\ running' = 0
       ELSE /\ tasks' = [tasks EXCEPT ![p].pc = "loop", ![p].current_date = 1,
                                      ![p].all_events = <<>>,
                                      ![p].all_event_ids = {}]
            /\ UNCHANGED running
    /\ UNCHANGED <<now, globals, refreshing, locals, extraction, apart>>

\* lines 987-1000 and 1063-1070: the loop test, then the POST is sent and the
\* task is suspended, or the report is returned
TaskIssue(p) ==
    /\ tasks[p].pc = "loop"
    /\ Runnable(p)
    /\ IF tasks[p].current_date <= MaxPairDay
       THEN tasks' = [tasks EXCEPT
                         ![p].pc = "await",
                         ![p].chunk_end = ChunkEnd(tasks[p].current_date, 1, MaxPairDay)]
       ELSE tasks' = [tasks EXCEPT
                         ![p].pc = "done",
                         ![p].result = Some(TaskReport(TRUE, tasks[p].all_events))]
    /\ running' = 0
    /\ UNCHANGED <<now, globals, refreshing, locals, extraction, apart>>

\* lines 696-739 and 1014-1057: the POST completes, the task is resumed and
\* runs the rest of the loop body
TaskResume(p) ==
    /\ tasks[p].pc = "await"
    /\ Runnable(p)
    /\ \E o \in PairSite, d \in 0..COOKIES_CACHE_DURATION :
        /\ now + d <= MaxTime
        /\ now' = now + d
        /\ LET v == make_api_request(o)
               t == tasks[p]
               skip == [t EXCEPT !.pc = "loop", !.current_date = t.chunk_end + 1]
           IN  IF v.type = "raise"
               THEN /\ tasks' = [tasks EXCEPT ![p] = [t EXCEPT !.pc = "done",
                                     !.result = Some(TaskReport(FALSE, <<>>))]]
                    /\ running' = 0
               ELSE IF IsFetchFailure(v)
               THEN tasks' = [tasks EXCEPT ![p] = skip] /\ running' = p
               ELSE IF v.type # "dict"
               THEN /\ tasks' = [tasks EXCEPT ![p] = [t EXCEPT !.pc = "done",
                                     !.result = Some(TaskReport(FALSE, <<>>))]]
                    /\ running' = 0
               ELSE IF GetData(v) = <<>>
               THEN tasks' = [tasks EXCEPT ![p] = skip] /\ running' = p
               ELSE LET html_content == GetData(v)
                        combined_events ==
                            CombinedEvents(extract_events_with_strategy(html_content),
                                           extract_holidays_fallback(html_content))
                        merged == MergeEvents([events |-> t.all_events,
                                               ids |-> Registry(p), dups |-> 0],
                                              combined_events)
                    IN  /\ tasks' = [tasks EXCEPT ![p] =
                                [skip EXCEPT !.all_events = merged.events,
                                             !.all_event_ids = merged.ids,
                                             !.served = Append(t.served, html_content)]]
                        /\ running' = p
    /\ UNCHANGED <<globals, refreshing, locals, extraction, apart>>

NextPair ==
    \/ \E p \in Tasks : TaskStart(p)
    \/ \E p \in Tasks : TaskBrowserDone(p)
    \/ \E p \in Tasks : TaskEnter(p)
    \/ \E p \in Tasks : TaskIssue(p)
    \/ \E p \in Tasks : TaskResume(p)

SpecPair == InitPair /\ [][NextPair]_vars

-----------------------------------------------------------------------------
(* The same scrape run twice, with days_per_chunk = 1, against a site that  *)
(* serves for a given day the same response every time.                     *)

TwiceSite == {Blocked, Body(JsonList), Body(JsonDict({"data"}, FragmentA)),
              Body(JsonDict({"data"}, FragmentB)), Body(JsonDict({"data"}, FragmentH))}

\* date_from is day 1; responses[d] is what the POST for day d comes back with
RunInputs ==
    {[responses |-> r, date_to |-> t, max_events |-> me] :
        r \in [1..MaxDay -> TwiceSite], t \in 1..MaxDay, me \in {None, Some(2)}}

InitTwice ==
    /\ Quiescent
    /\ NoExtraction
    /\ NoTasks
    /\ run_input \in RunInputs
    /\ first_run = None
    /\ second_run = None
    /\ NoLookup
    /\ NoJob

\* a registry that is kept from one call to the next
InitialRegistry_Kept(previous) == previous

\* line 983: all_event_ids = set(), whatever an earlier call recorded
InitialRegistry(previous) == {}

\* lines 987-1070 with days_per_chunk = 1: the loop from current_date = cur
\* on, acc being [events, ids, dups]; the value is the report and the id set
RECURSIVE ScrapeFrom(_, _, _)
ScrapeFrom(input, cur, acc) ==
    IF ~(cur <= input.date_to)
    THEN [report |-> TaskReport(TRUE, acc.events), ids |-> acc.ids]
    ELSE LET end == ChunkEnd(cur, 1, input.date_to)
             v == make_api_request(input.responses[cur])
         IN  IF v.type = "raise"
             THEN [report |-> TaskReport(FALSE, <<>>), ids |-> acc.ids]
             ELSE IF IsFetchFailure(v)
             THEN ScrapeFrom(input, end + 1, acc)
             ELSE IF v.type # "dict"
             THEN [report |-> TaskReport(FALSE, <<>>), ids |-> acc.ids]
             ELSE IF GetData(v) = <<>>
             THEN ScrapeFrom(input, end + 1, acc)
             ELSE LET html_content == GetData(v)
                      merged == MergeEvents([acc EXCEPT !.dups = 0],
                                    CombinedEvents(extract_events_with_strategy(html_content),
                                                   extract_holidays_fallback(html_content)))
                  IN  IF /\ ~IsNone(input.max_events)
                         /\ Len(merged.events) >= Val(input.max_events)
                      THEN [report |-> TaskReport(TRUE, merged.events),
                            ids |-> merged.ids]
                      ELSE ScrapeFrom(input, end + 1, merged)

\* lines 951-1070: a whole call that got the cookie set c; `previous` is the
\* id set the call before it ended with
RunOf(c, previous) ==
    IF SessionFailed(c)
    THEN [cookies |-> c, report |-> TaskReport(FALSE, <<>>), ids |-> {}]
    ELSE LET r == ScrapeFrom(run_input, 1,
                             [events |-> <<>>, ids |-> InitialRegistry(previous),
                              dups |-> 0])
         IN  [cookies |-> c, report |-> r.report, ids |-> r.ids]

\* the first call, from get_cookies to its report
RunFirst ==
    /\ IsNone(first_run)
    /\ \E ok \in BOOLEAN :
          LET fresh == IF ok THEN CookieSet(browser_launches + 1) ELSE NoCookies
              g == get_cookies(TRUE, fresh, now)
          IN  /\ cookies_cache' = g.set
              /\ cookies_cache_timestamp' = g.ts
              /\ browser_launches' = IF g.launched THEN browser_launches + 1
                                      ELSE browser_launches
              /\ first_run' = Some(RunOf(g.cookies, {}))
    /\ UNCHANGED <<now, run_input, second_run, locals, extraction, pair, desk, job>>

\* time passes between the two calls
BetweenRuns ==
    /\ ~IsNone(first_run)
    /\ IsNone(second_run)
    /\ now < MaxTime
    /\ now' = now + 1
    /\ UNCHANGED <<globals, runs, locals, extraction, pair, desk, job>>

\* the second call, with the same arguments
RunSecond ==
    /\ ~IsNone(first_run)
    /\ IsNone(second_run)
    /\ \E ok \in BOOLEAN :
          LET fresh == IF ok THEN CookieSet(browser_launches + 1) ELSE NoCookies
              g == get_cookies(TRUE, fresh, now)
          IN  /\ cookies_cache' = g.set
              /\ cookies_cache_timestamp' = g.ts
              /\ browser_launches' = IF g.launched THEN browser_launches + 1
                                      ELSE browser_launches
              /\ second_run' = Some(RunOf(g.cookies, Val(first_run).ids))
    /\ UNCHANGED <<now, run_input, first_run, locals, extraction, pair, desk, job>>

NextTwice ==
    \/ RunFirst
    \/ BetweenRuns
    \/ RunSecond

SpecTwice == InitTwice /\ [][NextTwice]_vars

-----------------------------------------------------------------------------
(* The registries: Country and Timezone with their lookups.  A text is the  *)
(* sequence of its characters, so that lower, strip, replace and `in` are   *)
(* computed on it.  Each registry is modelled by its first entries, in the  *)
(* order of the class body and of _name_map.                                *)

UPPER == <<"A", "B", "C", "D", "E", "F", "G", "H", "I", "J", "K", "L", "M", "N", "O", "P", "Q", "R", "S", "T", "U", "V", "W", "X", "Y", "Z">>
LOWER == <<"a", "b", "c", "d", "e", "f", "g", "h", "i", "j", "k", "l", "m", "n", "o", "p", "q", "r", "s", "t", "u", "v", "w", "x", "y", "z">>

\* str.lower()
lower(s) ==
    [i \in 1..Len(s) |->
        IF \E k \in 1..Len(UPPER) : UPPER[k] = s[i]
        THEN LOWER[CHOOSE k \in 1..Len(UPPER) : UPPER[k] = s[i]]
        ELSE s[i]]

\* str.strip(): the blanks at both ends go
RECURSIVE strip(_)
strip(s) ==
    IF s = <<>> THEN s
    ELSE IF Head(s) = " " THEN strip(Tail(s))
    ELSE IF s[Len(s)] = " " THEN strip(SubSeq(s, 1, Len(s) - 1))
    ELSE s

\* str.replace(old, new) for single characters
replace(s, old, new) == [i \in 1..Len(s) |-> IF s[i] = old THEN new ELSE s[i]]

\* `part in s` for two texts
Contains(s, part) ==
    \E i \in 0..(Len(s) - Len(part)) : SubSeq(s, i + 1, i + Len(part)) = part

\* lines 25-26, 39 and 147-148, 161
CountryEntries == <<
    [code |-> 4,
     canonical |-> <<"U", "n", "i", "t", "e", "d", " ", "K", "i", "n", "g", "d", "o", "m">>,
     member |-> <<"U", "N", "I", "T", "E", "D", "_", "K", "I", "N", "G", "D", "O", "M">>],
    [code |-> 5,
     canonical |-> <<"U", "n", "i", "t", "e", "d", " ", "S", "t", "a", "t", "e", "s">>,
     member |-> <<"U", "N", "I", "T", "E", "D", "_", "S", "T", "A", "T", "E", "S">>],
    [code |-> 22,
     canonical |-> <<"F", "r", "a", "n", "c", "e">>,
     member |-> <<"F", "R", "A", "N", "C", "E">>]>>

\* lines 269-271 and 361-363
TimezoneEntries == <<
    [code |-> 1,
     canonical |-> <<"(", "G", "M", "T", " ", "+", "1", "2", ":", "0", "0", ")", " ", "E", "n", "i", "w", "e", "t", "o", "k", ",", " ", "K", "w", "a", "j", "a", "l", "e", "i", "n">>,
     member |-> <<"G", "M", "T", "_", "1", "2", "0", "0", "_", "E", "N", "I", "W", "E", "T", "O", "K", "_", "K", "W", "A", "J", "A", "L", "E", "I", "N">>],
    [code |-> 2,
     canonical |-> <<"(", "G", "M", "T", " ", "-", "1", "1", ":", "0", "0", ")", " ", "M", "i", "d", "w", "a", "y", " ", "I", "s", "l", "a", "n", "d">>,
     member |-> <<"G", "M", "T", "_", "1", "1", "0", "0", "_", "M", "I", "D", "W", "A", "Y", "_", "I", "S", "L", "A", "N", "D">>],
    [code |-> 3,
     canonical |-> <<"(", "G", "M", "T", " ", "-", "1", "0", ":", "0", "0", ")", " ", "H", "a", "w", "a", "i", "i">>,
     member |-> <<"G", "M", "T", "_", "1", "0", "0", "0", "_", "H", "A", "W", "A", "I", "I">>]>>

CodesOf(entries) == {entries[i].code : i \in 1..Len(entries)}

\* `for ... in ...: if test: return cls(code)`: the code of the first of the
\* entries whose positions are in `hits`, or None when the loop falls through
FirstEntry(entries, hits) ==
    IF hits = {} THEN None
    ELSE Some(entries[CHOOSE i \in hits : \A j \in hits : i <= j].code)

Positions(entries) == 1..Len(entries)

\* cls(code) raises ValueError for a value that is no member; lines 133-139
\* and 347-353 turn that into None
get_by_code(entries, code) ==
    IF code \in CodesOf(entries) THEN Some(code) ELSE None

\* the exact search and the search on the member's name, lines 255-264
\* and 439-442, 447-452
ExactSearch(entries, name_lower) ==
    LET name_normalized == replace(replace(name_lower, " ", "_"), "-", "_")
        exact == FirstEntry(entries, {i \in Positions(entries) :
                                        lower(entries[i].canonical) = name_lower})
    IN  IF ~IsNone(exact) THEN exact
        ELSE FirstEntry(entries, {i \in Positions(entries) :
                                     lower(entries[i].member) = name_normalized})

\* Country.get_by_name, lines 141-264
Country_get_by_name(name) == ExactSearch(CountryEntries, strip(lower(name)))

\* Timezone.get_by_name, lines 355-452: the partial search of lines 443-446
\* comes between the two searches of ExactSearch
Timezone_get_by_name(name) ==
    LET name_lower == strip(lower(name))
        exact == FirstEntry(TimezoneEntries,
                            {i \in Positions(TimezoneEntries) :
                                lower(TimezoneEntries[i].canonical) = name_lower})
        partial == FirstEntry(TimezoneEntries,
                              {i \in Positions(TimezoneEntries) :
                                  LET timezone_name == lower(TimezoneEntries[i].canonical)
                                  IN  \/ Contains(timezone_name, name_lower)
                                      \/ Contains(name_lower, timezone_name)})
    IN  IF ~IsNone(exact) THEN exact
        ELSE IF ~IsNone(partial) THEN partial
        ELSE ExactSearch(TimezoneEntries, name_lower)

\* the texts looked up: every text of up to MaxNameLen characters over a
\* small alphabet, and some names of the two registries in several spellings
NameAlphabet == {" ", "m", "T", "x"}
ShortNames == UNION {[1..n -> NameAlphabet] : n \in 0..MaxNameLen}
LongNames == {<<"F", "r", "a", "n", "c", "e">>,
              <<" ", "F", "R", "A", "N", "C", "E", " ">>,
              <<"u", "n", "i", "t", "e", "d", "-", "s", "t", "a", "t", "e", "s">>,
              <<"U", "n", "i", "t", "e", "d", " ", "K", "i", "n", "g", "d", "o", "m">>,
              <<"A", "t", "l", "a", "n", "t", "i", "s">>,
              <<"h", "a", "w", "a", "i", "i">>,
              <<"(", "g", "m", "t", " ", "-", "1", "0", ":", "0", "0", ")", " ", "h", "a", "w", "a", "i", "i">>,
              <<"G", "M", "T", "_", "1", "1", "0", "0", "_", "M", "I", "D", "W", "A", "Y", "_", "I", "S", "L", "A", "N", "D">>,
              <<"M", "i", "d", "w", "a", "y">>}
Names == ShortNames \cup LongNames
Codes == (-1)..MaxCode \cup {22, 999}

InitLookup ==
    /\ Quiescent
    /\ NoExtraction
    /\ NoTasks
    /\ NoRuns
    /\ NoJob
    /\ lookup = None
    /\ found = None

\* one call of a lookup: `lookup` is the call, `found` what it returned
CountryByCode ==
    /\ \E code \in Codes :
          /\ lookup' = Some([cls |-> "Country", by |-> "code", arg |-> code])
          /\ found' = get_by_code(CountryEntries, code)
    /\ UNCHANGED <<locals, now, globals, extraction, pair, runs, job>>

CountryByName ==
    /\ \E name \in Names :
          /\ lookup' = Some([cls |-> "Country", by |-> "name", arg |-> name])
          /\ found' = Country_get_by_name(name)
    /\ UNCHANGED <<locals, now, globals, extraction, pair, runs, job>>

TimezoneByCode ==
    /\ \E code \in Codes :
          /\ lookup' = Some([cls |-> "Timezone", by |-> "code", arg |-> code])
          /\ found' = get_by_code(TimezoneEntries, code)
    /\ UNCHANGED <<locals, now, globals, extraction, pair, runs, job>>

TimezoneByName ==
    /\ \E name \in Names :
          /\ lookup' = Some([cls |-> "Timezone", by |-> "name", arg |-> name])
          /\ found' = Timezone_get_by_name(name)
    /\ UNCHANGED <<locals, now, globals, extraction, pair, runs, job>>

NextLookup ==
    \/ CountryByCode
    \/ CountryByName
    \/ TimezoneByCode
    \/ TimezoneByName

SpecLookup == InitLookup /\ [][NextLookup]_vars

-----------------------------------------------------------------------------
(* InvestingComScraper (src/src): scrape_date_range with the retry loop of  *)
(* _make_api_request.  A sleep of random.uniform(a, b) seconds is a choice  *)
(* among the whole seconds a..b-1.  The range starts on day 1.              *)

Uniform(a, b) == a..(b - 1)

\* what one session.post can come back with: 200 with a JSON body that is
\* truthy or falsy, another status, 200 with a body that is no JSON, a
\* requests.exceptions.RequestException
PostOutcomes == {"json", "empty", "status", "malformed", "error"}

\* end dates that give one, two and three chunks, with and without the
\* holidays in range
EndDates == {10, chunk_days, chunk_days + 1, 45, 2 * chunk_days + 1}

\* lines 771-786: the holidays of the years 2025 and 2026 that lie in range
ImportantHolidays(end_date) ==
    SelectSeq(<<CHRISTMAS, NEW_YEAR>>, LAMBDA h : 1 <= h /\ h <= end_date)

InitRange ==
    /\ Quiescent
    /\ NoExtraction
    /\ NoTasks
    /\ NoRuns
    /\ NoLookup
    /\ \E ra \in 0..MaxRetryAttempts, e \in EndDates :
          job = [pc |-> "loop", retry_attempts |-> ra, end_date |-> e,
                 important_holidays |-> ImportantHolidays(e),
                 current_start |-> 1, current_end |-> 1, target |-> "chunk",
                 date_from |-> 1, date_to |-> 1, attempt |-> 0, posted |-> 0,
                 waits |-> <<>>, last |-> "", json_data |-> "none",
                 chunks |-> 0, slept |-> FALSE, all_events |-> <<>>]

\* _make_api_request is entered for the dates f..t: range(retry_attempts) is
\* empty when retry_attempts = 0 and the function returns None at line 146
Enter(j, target, f, t) ==
    [j EXCEPT !.target = target, !.date_from = f, !.date_to = t, !.attempt = 0,
              !.posted = 0, !.waits = <<>>, !.last = "", !.json_data = "none",
              !.pc = IF j.retry_attempts > 0 THEN "post" ELSE "got"]

\* lines 794-799: the next chunk is cut and its fetch begins
NextChunk ==
    /\ job.pc = "loop"
    /\ job.current_start <= job.end_date
    /\ LET current_end == Min(job.current_start + (chunk_days - 1), job.end_date)
       IN  job' = [Enter(job, "chunk", job.current_start, current_end)
                     EXCEPT !.current_end = current_end, !.chunks = @ + 1]
    /\ UNCHANGED <<locals, now, globals, extraction, pair, runs, desk>>

\* lines 128, 134 and 141: the sleeps a failed attempt can be followed by
RetryWaits(failure, attempt) ==
    IF failure = "error" THEN {u * (attempt + 1) : u \in Uniform(2, 4)}
    ELSE Uniform(2, 4)

\* lines 109-146: one pass of the retry loop, the sleep before `continue`
\* included
PostOnce ==
    /\ job.pc = "post"
    /\ \E o \in PostOutcomes :
          IF o \in {"json", "empty"}
          THEN job' = [job EXCEPT !.posted = @ + 1, !.last = o, !.json_data = o,
                                  !.pc = "got"]
          ELSE IF job.attempt < job.retry_attempts - 1
          THEN \E w \in RetryWaits(o, job.attempt) :
                  job' = [job EXCEPT !.posted = @ + 1, !.last = o,
                                     !.waits = Append(@, w), !.attempt = @ + 1]
          ELSE job' = [job EXCEPT !.posted = @ + 1, !.last = o,
                                  !.json_data = "none", !.pc = "got"]
    /\ UNCHANGED <<locals, now, globals, extraction, pair, runs, desk>>

\* lines 801-813: the chunk's fetch has returned
AfterChunk ==
    /\ job.pc = "got"
    /\ job.target = "chunk"
    /\ job' = [job EXCEPT
                 !.all_events = IF job.json_data = "json"
                                THEN Append(@, job.date_from) ELSE @,
                 !.slept = job.json_data = "json" /\ job.current_end < job.end_date,
                 !.current_start = job.current_end + 1,
                 !.pc = "loop"]
    /\ UNCHANGED <<locals, now, globals, extraction, pair, runs, desk>>

\* lines 818-821 and 744: after the chunks, the next holiday is fetched by
\* scrape_single_day; lines 828-834 when none is left
NextHoliday ==
    /\ job.pc = "loop"
    /\ ~(job.current_start <= job.end_date)
    /\ IF job.important_holidays = <<>>
       THEN job' = [job EXCEPT !.pc = "done"]
       ELSE LET holiday_date == Head(job.important_holidays)
            IN  job' = Enter(job, "holiday", holiday_date, holiday_date)
    /\ UNCHANGED <<locals, now, globals, extraction, pair, runs, desk>>

\* lines 746-753 and 822-825: the holiday's fetch has returned
AfterHoliday ==
    /\ job.pc = "got"
    /\ job.target = "holiday"
    /\ job' = [job EXCEPT
                 !.all_events = IF job.json_data = "json"
                                THEN Append(@, job.date_from) ELSE @,
                 !.slept = TRUE,
                 !.important_holidays = Tail(@),
                 !.pc = "loop"]
    /\ UNCHANGED <<locals, now, globals, extraction, pair, runs, desk>>

NextRange ==
    \/ NextChunk
    \/ PostOnce
    \/ AfterChunk
    \/ NextHoliday
    \/ AfterHoliday

SpecRange == InitRange /\ [][NextRange]_vars

-----------------------------------------------------------------------------
(* Properties *)

Running == pc \in {"loop", "await", "handle", "done"}
Returned == pc = "done" /\ ~IsNone(result)
Succeeded == Returned /\ Val(result).success
Exhausted == ~(current_date <= date_to)      \* the loop test failed, no break

HasId(e) == e.event_id # <<>>
WithId(events) == SelectSeq(events, HasId)
Accumulator == [events |-> all_events, ids |-> all_event_ids, dups |-> 0]
EventsOf(html_content) ==
    extract_events_with_strategy(html_content) \o extract_holidays_fallback(html_content)
Servable == {GetData(o.body) : o \in {x \in site : x.kind = "json" /\ x.body.type = "dict"}}

\* C1: the accumulated list never holds two events with the same non-empty
\* event_id, every recorded id belongs to an accumulated event, and merging a
\* chunk's event list a second time adds no event that carries a non-empty id.
C1_NoDuplicateEventIds ==
    /\ \A i, j \in 1..Len(all_events) :
          (i < j /\ all_events[i].event_id = all_events[j].event_id)
              => all_events[i].event_id = <<>>
    /\ all_event_ids = {all_events[i].event_id : i \in 1..Len(all_events)} \ {<<>>}
    /\ \A html \in Servable :
          LET once == MergeEvents(Accumulator, EventsOf(html))
              twice == MergeEvents(once, EventsOf(html))
          IN  WithId(twice.events) = WithId(once.events)

\* C1 witness: a merge has dropped duplicates that an earlier chunk had brought
C1_Witness ==
    /\ pc = "loop" /\ chunk_num = 2 /\ skipped = 0
    /\ duplicate_count = 2
    /\ Len(all_events) = 2

\* C2: the step that handles a failed fetch (make_api_request returned None)
\* ends with the loop going on at the day after the chunk, the accumulated
\* events untouched and no report produced; a report produced by the loop is a
\* Success report that carries every accumulated event; and a call that skipped
\* a chunk and still returned Failed did so because a later body raised.
C2_FailedFetchSkipped ==
    /\ [][(pc = "handle" /\ api_response = PyNone)
            => (/\ pc' = "loop"
                /\ current_date' = chunk_end + 1
                /\ all_events' = all_events
                /\ all_event_ids' = all_event_ids
                /\ result' = None)]_vars
    /\ [](Succeeded => Val(result).events = all_events)
    /\ []((Returned /\ skipped > 0 /\ ~Val(result).success)
            => (Truthy(api_response) /\ api_response.type # "dict"))

\* C2 witness: a Success report with events of the first chunk, the second
\* chunk's fetch having failed
C2_Witness ==
    /\ Succeeded
    /\ chunk_num = 2 /\ skipped = 1
    /\ api_response = PyNone
    /\ Len(Val(result).events) = 2

\* C3: once get_cookies has returned the empty set the call is over, its
\* report is Failed with no events, and it has issued no POST.
C3_EmptyCookiesFatal ==
    (pc \notin {"idle", "start"} /\ cookies = NoCookies)
        => (/\ Returned
            /\ ~Val(result).success
            /\ Val(result).events = <<>>
            /\ Val(result).total_events = 0
            /\ posts = <<>>
            /\ chunk_num = 0)

\* C3 witness: a call that launched the browser and got nothing
C3_Witness ==
    pc = "done" /\ cookies = NoCookies /\ browser_launches = 1 /\ use_date_splitting

\* C4: for date_from <= date_to and days_per_chunk >= 1 the chunks sent are
\* in increasing date order, each has from <= to, consecutive chunks are
\* adjacent (no day twice, no gap), none passes date_to, each but the last
\* has exactly days_per_chunk days, and when the loop runs out every day of
\* the range lies in exactly one chunk.
C4_PartitionCovers ==
    (Running /\ date_from <= date_to /\ days_per_chunk >= 1)
        => (/\ \A i \in 1..Len(posts) :
                  /\ posts[i].dateFrom <= posts[i].dateTo
                  /\ posts[i].dateTo <= date_to
                  /\ posts[i].dateTo - posts[i].dateFrom + 1 <= days_per_chunk
                  /\ i = 1 => posts[i].dateFrom = date_from
                  /\ i > 1 => posts[i].dateFrom = posts[i - 1].dateTo + 1
                  /\ i < Len(posts)
                        => posts[i].dateTo - posts[i].dateFrom + 1 = days_per_chunk
            /\ \A d \in date_from..date_to :
                  Cardinality({i \in 1..Len(posts) :
                                  posts[i].dateFrom <= d /\ d <= posts[i].dateTo})
                      <= 1
            /\ (Succeeded /\ Exhausted)
                  => \A d \in date_from..date_to :
                        Cardinality({i \in 1..Len(posts) :
                                        posts[i].dateFrom <= d /\ d <= posts[i].dateTo})
                            = 1)

\* C4 witness: three days in chunks of two, the last chunk clipped
C4_Witness ==
    /\ Succeeded /\ Exhausted
    /\ days_per_chunk = 2
    /\ posts # <<>>
    /\ date_to - date_from = 2
    /\ Len(posts) = 2
    /\ posts[2].dateFrom = posts[2].dateTo

\* C5: with days_per_chunk = 1, chunk number i is (date_from + i - 1,
\* date_from + i - 1), and a Success report of a call that no max_events limit
\* stopped has total_pages equal to the number of days of the range.
C5_OneChunkPerDay ==
    (Running /\ days_per_chunk = 1 /\ date_from <= date_to)
        => (/\ \A i \in 1..Len(posts) :
                  /\ posts[i].dateFrom = date_from + i - 1
                  /\ posts[i].dateTo = date_from + i - 1
            /\ (Succeeded /\ (IsNone(max_events) \/ Exhausted))
                  => (/\ Len(posts) = date_to - date_from + 1
                      /\ Val(result).total_pages = date_to - date_from + 1))

\* C5 witness: 2025-12-02 to 2025-12-20 reported with 19 chunks
C5_Witness ==
    /\ Succeeded
    /\ date_from = ScenarioFrom /\ date_to = ScenarioTo
    /\ days_per_chunk = 1
    /\ Val(result).total_pages = 19
    /\ skipped > 0

\* C6: every pass of the chunk loop that goes back to the loop test has moved
\* current_date forward, whatever days_per_chunk is (so the loop is finite).
C6_LoopAdvances ==
    [][(pc = "handle" /\ pc' = "loop") => current_date' > current_date]_vars

\* C7: the process-wide cache never holds the empty cookie set, so a failed
\* acquisition is never served from the cache.
C7_CacheOnlyOnSuccess ==
    cookies_cache # Some(NoCookies)

\* C8: when a POST comes back blocked (HTTP 403), the cookie cache is
\* invalidated before the call issues its next POST.
C8_BlockedInvalidatesCache ==
    [][(pc = "handle" /\ http_outcome = Some(Blocked)) => cookies_cache' = None]_vars

\* C9: get_cookies(cache=True) on a cache that holds a harvested cookie set:
\* less than COOKIES_CACHE_DURATION after its timestamp the cached set is
\* returned and no browser is launched; from then on the browser is launched
\* and the cached set and timestamp are replaced by the new ones.
C9_CacheWindow ==
    [][(/\ pc = "start"
        /\ use_cache
        /\ ~IsNone(cookies_cache)
        /\ ~IsNone(cookies_cache_timestamp)
        /\ cookies_cache # Some(NoCookies))
        => IF now - Val(cookies_cache_timestamp) < COOKIES_CACHE_DURATION
           THEN /\ cookies' = Val(cookies_cache)
                /\ browser_launches' = browser_launches
                /\ cookies_cache' = cookies_cache
                /\ cookies_cache_timestamp' = cookies_cache_timestamp
           ELSE /\ browser_launches' = browser_launches + 1
                /\ cookies' # Val(cookies_cache)
                /\ cookies_cache' = Some(cookies')
                /\ cookies_cache_timestamp' = Some(now')]_vars

\* C9 witness: the second call runs on the cookies of the first call's browser
\* launch, taken from the cache one tick after they were stored
C9_Witness ==
    /\ calls = 2 /\ pc = "loop" /\ use_cache
    /\ browser_launches = 1
    /\ cookies = CookieSet(1)
    /\ cookies_cache = Some(CookieSet(1))
    /\ now - Val(cookies_cache_timestamp) = 1

\* C10: a Success report of a call that skipped a chunk shows it: the chunk
\* count it reports is the number of chunks that contributed data, which is
\* below the number of chunks attempted.
C10_ReportShowsSkippedChunks ==
    (Succeeded /\ skipped > 0)
        => (/\ Val(result).total_pages = chunk_num - skipped
            /\ Val(result).total_pages < chunk_num)

\* C11: once the chunk loop has been entered (a non-empty cookie set was
\* obtained and date splitting is on), no response body makes the call return
\* Failed or lose merged events: a report of such a call is a Success report
\* that carries every event merged so far.
C11_OnlySessionFailureFails ==
    (Returned /\ cookies # NoCookies /\ use_date_splitting)
        => (Val(result).success /\ Val(result).events = all_events)

C13_CancelReturnsPartial ==
    (pc = "cancelled" /\ all_events # <<>>)
        => (~IsNone(result) /\ Val(result).events = all_events)

\* C14: no event of a returned Success report has a name that is empty after
\* trimming, whichever extractor produced it.
C14_NoEmptyNameReturned ==
    Succeeded
        => \A i \in 1..Len(Val(result).events) :
              Strip(Val(result).events[i].event) # ""

NoId(events) == SelectSeq(events, LAMBDA e : ~HasId(e))

\* C15: the empty event_id is never in the dedup registry; a merge step
\* appends every incoming event that has an empty event_id, so the number of
\* empty-id events grows by the number k of such events in the chunk; and
\* merging the same list once more grows the whole list by exactly k again.
C15_EmptyIdAlwaysAppended ==
    /\ [](<<>> \notin all_event_ids)
    /\ [][(pc = "handle" /\ all_events' # all_events)
            => LET k == Len(NoId(EventsOf(GetData(api_response))))
               IN  /\ Len(NoId(all_events')) = Len(NoId(all_events)) + k
                   /\ <<>> \notin all_event_ids']_vars
    /\ [](\A html \in Servable :
            LET k == Len(NoId(EventsOf(html)))
                once == MergeEvents(Accumulator, EventsOf(html))
                twice == MergeEvents(once, EventsOf(html))
            IN  /\ Len(NoId(once.events)) = Len(NoId(all_events)) + k
                /\ Len(twice.events) = Len(once.events) + k)

\* C15 witness: the same chunk list merged twice; its event without an id is
\* in the list twice, its event with an id once
C15_Witness ==
    /\ pc = "loop" /\ chunk_num = 2
    /\ duplicate_count = 1
    /\ Len(all_events) = 3
    /\ ~HasId(all_events[2])
    /\ all_events[3] = all_events[2]

Extracted == stage \in {"primary", "fallback"}

\* C16: the impact the primary extractor gives an event follows from the
\* row's icon count and the event name: three icons High, two Medium, one
\* Low, none Medium, and a name with a holiday keyword ("Christmas Day",
\* here on a row without icons) gives Holiday.
C16_ImpactOfIconsAndName ==
    Extracted
        => \A i \in 1..Len(chunk_events) :
              LET e == chunk_events[i]
              IN  /\ e.event = "CPI" => e.impact = "High"
                  /\ e.event = "GDP" => e.impact = "Medium"
                  /\ e.event = "Retail Sales" => e.impact = "Low"
                  /\ e.event = "Trade Balance" => e.impact = "Medium"
                  /\ e.event = "Christmas Day" => e.impact = "Holiday"

Named(row) == StartsWithPrefix(row.id) /\ row.event_a \notin Whitespace

\* C17: the primary extractor emits one event for every event row with a
\* non-empty name, whatever its raw date-time is (nothing is raised); the raw
\* text "2025/12/25 13:30:00" gives parsed_datetime "2025-12-25T13:30:00" and
\* the day of that date, "2024/02/29 08:05:09" likewise; every other raw text
\* (another layout, a day that does not exist, words, the empty text) leaves
\* parsed_datetime and day empty.
C17_DatetimeConversion ==
    Extracted
        => /\ Len(chunk_events) = Len(SelectSeq(markup, Named))
           /\ \A i \in 1..Len(chunk_events) :
                 LET e == chunk_events[i]
                 IN  /\ e.datetime = SelectSeq(markup, Named)[i].datetime
                     /\ IF e.datetime = Written(RAW_FORMAT, 2025, 12, 25, 13, 30, 0)
                        THEN /\ e.parsed_datetime
                                  = Written(ISO_FORMAT, 2025, 12, 25, 13, 30, 0)
                             /\ e.day = [layout |-> DAY_FORMAT, weekday |-> "Thursday",
                                         month |-> "December", d |-> 25, y |-> 2025]
                        ELSE IF e.datetime = Written(RAW_FORMAT, 2024, 2, 29, 8, 5, 9)
                        THEN /\ e.parsed_datetime
                                  = Written(ISO_FORMAT, 2024, 2, 29, 8, 5, 9)
                             /\ e.day = [layout |-> DAY_FORMAT, weekday |-> "Thursday",
                                         month |-> "February", d |-> 29, y |-> 2024]
                        ELSE e.parsed_datetime = NoText /\ e.day = NoText

\* C17 witness: a fragment whose first row converts and whose next two rows,
\* a day that does not exist and another layout, are emitted without a date
C17_Witness ==
    /\ Extracted
    /\ Len(chunk_events) = 3
    /\ chunk_events[1].parsed_datetime = Written(ISO_FORMAT, 2025, 12, 25, 13, 30, 0)
    /\ chunk_events[2].event = "GDP"
    /\ chunk_events[2].datetime = Written(RAW_FORMAT, 2025, 2, 30, 10, 0, 0)
    /\ chunk_events[2].parsed_datetime = NoText
    /\ chunk_events[3].datetime.layout = OTHER_FORMAT
    /\ chunk_events[3].day = NoText

IsHeaderAt(j) == markup[j].theDay # ""
IsHolidayAt(j) == ~IsHeaderAt(j) /\ markup[j].holiday /\ markup[j].cells >= 3
HolidayPositions == {j \in 1..Len(markup) : IsHolidayAt(j)}
\* the position in the fragment of the k-th holiday row
PositionOf(k) ==
    CHOOSE j \in HolidayPositions : Cardinality({x \in HolidayPositions : x <= j}) = k
\* the text of the last day header above position j, None when there is none
HeaderAbove(j) ==
    LET above == {x \in 1..(j - 1) : IsHeaderAt(x)}
    IN  IF above = {} THEN None
        ELSE Some(markup[CHOOSE x \in above : \A z \in above : z <= x].theDay)

\* C18: the fallback parse of a fragment emits one event per holiday row, in
\* row order, each with impact Holiday and with the text of the nearest day
\* header above its row as its day (no day when no header precedes it); so a
\* header followed by three holiday rows gives three Holiday events whose day
\* is the header's text.
C18_HolidayTakesLastHeader ==
    stage = "fallback"
        => /\ Len(holidays) = Cardinality(HolidayPositions)
           /\ \A k \in 1..Len(holidays) :
                 /\ holidays[k].impact = "Holiday"
                 /\ holidays[k].day = HeaderAbove(PositionOf(k))

\* C18 witness: one day header followed by three holiday rows, one of them
\* of three cells
C18_Witness ==
    /\ stage = "fallback"
    /\ Len(markup) = 4
    /\ markup[1] = HeaderRow("Thursday, December 25, 2025")
    /\ markup[4] = ShortHolidayRow
    /\ Len(holidays) = 3
    /\ \A k \in 1..3 :
          /\ holidays[k].impact = "Holiday"
          /\ holidays[k].day = Some("Thursday, December 25, 2025")

\* C19: at no time are two browser acquisitions in flight, whether the calls
\* found the cache empty or expired or were told not to use it.
C19_OneRefreshInFlight ==
    Cardinality(refreshing) <= 1

\* C19 witness: the second call found the cache expired and is acquiring
\* cookies while the first call, which filled the cache, waits for a POST
C19_Witness ==
    /\ refreshing = {2}
    /\ tasks[2].use_cache
    /\ tasks[1].pc = "await"
    /\ tasks[1].use_cache
    /\ browser_launches = 1
    /\ ~IsNone(cookies_cache)

IdsOf(events) == {events[i].event_id : i \in 1..Len(events)} \ {<<>>}

\* C20: the registry of a call holds the ids of that call's own events and
\* nothing else, and every event with an id that a fragment served to a call
\* brought is in that call's list, whatever the other call has recorded in
\* the meantime.
C20_RegistryPerCall ==
    \A p \in Tasks :
        /\ tasks[p].all_event_ids = IdsOf(tasks[p].all_events)
        /\ \A i \in 1..Len(tasks[p].served) :
              IdsOf(extract_events_with_strategy(tasks[p].served[i])
                        \o extract_holidays_fallback(tasks[p].served[i]))
                  \subseteq IdsOf(tasks[p].all_events)

\* C20 witness: both calls are between two chunks and each has merged the
\* same fragment, the second after the first had recorded its ids
C20_Witness ==
    /\ tasks[1].pc = "await" /\ tasks[2].pc = "await"
    /\ tasks[1].served = <<FragmentA>>
    /\ tasks[2].served = <<FragmentA>>
    /\ tasks[1].all_event_ids = {<<"a">>, <<"b">>}
    /\ tasks[2].all_event_ids = {<<"a">>, <<"b">>}

C24_ReportWithinMaxEvents ==
    (Succeeded /\ ~IsNone(max_events))
        => Len(Val(result).events) <= Val(max_events)

IsPrefixOf(a, b) == Len(a) <= Len(b) /\ SubSeq(b, 1, Len(a)) = a
Merging == pc = "handle" /\ api_response.type = "dict" /\ GetData(api_response) # <<>>
PrimaryOf(html_content) == extract_events_with_strategy(html_content)
FallbackOf(html_content) == extract_holidays_fallback(html_content)

\* C25: chunks are processed one after the other and in order: a POST is
\* sent only when no earlier response waits to be merged and the loop has
\* moved past the chunk posted before it; a merge handles the chunk posted
\* last, appends to what earlier chunks left, and within the chunk takes the
\* primary extractor's events before the fallback's holiday events.
C25_ChunksInOrder ==
    [][/\ (Len(posts') = Len(posts) + 1)
            => /\ pc = "loop"
               /\ IsNone(http_outcome)
               /\ Len(posts) > 0 => current_date = posts[Len(posts)].dateTo + 1
       /\ (Merging /\ pc' # "handle")
            => /\ Len(posts) = chunk_num
               /\ posts[chunk_num].dateTo = chunk_end
               /\ IsPrefixOf(all_events, all_events')
               /\ all_events' =
                    MergeEvents(MergeEvents(Accumulator,
                                            PrimaryOf(GetData(api_response))),
                                FallbackOf(GetData(api_response))).events]_vars

\* C25 witness: the second chunk of a call is merged; it gave an event and
\* a new holiday, which follow in that order the three holidays of the
\* first chunk
C25_Witness ==
    /\ pc = "loop"
    /\ chunk_num = 2
    /\ Len(posts) = 2
    /\ api_response.type = "dict"
    /\ GetData(api_response) = FragmentM
    /\ Len(all_events) = 5
    /\ all_events[1].event_id = <<"a">>
    /\ all_events[4].event = "GDP"
    /\ all_events[5].event_id = <<"d">>

\* C29: a merge only appends to the list, so a record already kept stays
\* where it is; when both extractors emit one non-empty id for a chunk and
\* no earlier chunk had it, the list ends up with the primary extractor's
\* record under that id.
C29_FirstOccurrenceWins ==
    [][(Merging /\ pc' # "handle")
          => /\ IsPrefixOf(all_events, all_events')
             /\ LET first == PrimaryOf(GetData(api_response))
                    second == FallbackOf(GetData(api_response))
                IN  \A i \in 1..Len(first), j \in 1..Len(second) :
                       (/\ first[i].event_id # <<>>
                        /\ first[i].event_id = second[j].event_id
                        /\ first[i].event_id \notin all_event_ids
                        /\ \A k \in 1..(i - 1) : first[k].event_id # first[i].event_id)
                          => /\ \E n \in 1..Len(all_events') : all_events'[n] = first[i]
                             /\ \A n \in 1..Len(all_events') : all_events'[n] # second[j]]_vars

\* C29 witness: the fragment in which both extractors emit id b has been
\* merged as the first chunk of a call, and the record kept under b is the
\* event, not the holiday
C29_Witness ==
    /\ pc = "loop"
    /\ chunk_num = 1
    /\ api_response.type = "dict"
    /\ GetData(api_response) = FragmentM
    /\ Len(all_events) = 2
    /\ all_events[1].event_id = <<"b">>
    /\ all_events[1].event = "GDP"
    /\ all_events[1].impact # "Holiday"
    /\ all_events[2].event_id = <<"d">>

\* C30: get_cookies(cache=False) always runs the browser, hands out what the
\* browser gave (never the cached set) and leaves the cached set and its
\* timestamp as they were, whether the browser gave cookies or not.
C30_UncachedLeavesCache ==
    [][(pc = "start" /\ ~use_cache /\ pc' # "start")
          => /\ browser_launches' = browser_launches + 1
             /\ cookies' \in {NoCookies, CookieSet(browser_launches')}
             /\ cookies_cache' = cookies_cache
             /\ cookies_cache_timestamp' = cookies_cache_timestamp]_vars

\* C30 witness: a call with use_cache = False got its own cookie set from a
\* second browser run while the cache held, still valid, the set of the first
C30_Witness ==
    /\ pc = "loop"
    /\ ~use_cache
    /\ cookies = CookieSet(2)
    /\ browser_launches = 2
    /\ cookies_cache = Some(CookieSet(1))
    /\ ~IsNone(cookies_cache_timestamp)
    /\ now - Val(cookies_cache_timestamp) < COOKIES_CACHE_DURATION

\* C28: every report is consistent with itself: total_events is the length
\* of events; a successful report has no error message; a failed report has
\* no events, total_events = 0, total_pages = 0 and an error message.
C28_ReportSelfConsistent ==
    ~IsNone(result)
        => LET r == Val(result)
           IN  /\ r.total_events = Len(r.events)
               /\ r.success => IsNone(r.error_message)
               /\ ~r.success => /\ r.events = <<>>
                                /\ r.total_events = 0
                                /\ r.total_pages = 0
                                /\ ~IsNone(r.error_message)

\* C28 witness: a call fails on its second chunk, after the first chunk's
\* events were merged, and its report is the empty failure report
C28_Witness ==
    /\ pc = "done"
    /\ ~IsNone(result)
    /\ ~Val(result).success
    /\ chunk_num = 2
    /\ Len(all_events) >= 2
    /\ Val(result).events = <<>>
    /\ Val(result).error_message = Some("Erreur generale")

\* C27: a call sends one POST for each chunk its loop cuts and no other: the
\* POSTs sent are as many as the chunks cut, the first starts at date_from,
\* each next one starts the day after the one before ended, each ends at the
\* chunk's end (the width, clipped to date_to), and each carries
\* limit_from = 0, no pids[] field and the cookie set the call acquired.
C27_OnePostPerChunk ==
    pc \in {"loop", "await", "handle"}
        => /\ Len(posts) = chunk_num
           /\ \A k \in 1..Len(posts) :
                 /\ posts[k].dateFrom = IF k = 1 THEN date_from
                                        ELSE posts[k - 1].dateTo + 1
                 /\ posts[k].dateTo = Min(posts[k].dateFrom + days_per_chunk - 1,
                                          date_to)
                 /\ posts[k].limit_from = 0
                 /\ posts[k].pids = <<>>
                 /\ posts[k].cookies = cookies
                 /\ posts[k].cookies # NoCookies
           /\ pc \in {"await", "handle"}
                 => /\ posts[chunk_num].dateFrom = current_date
                    /\ posts[chunk_num].dateTo = chunk_end

\* C27 witness: the third chunk's POST is out, after a chunk that gave events
\* and one that failed
C27_Witness ==
    /\ pc = "await"
    /\ chunk_num = 3
    /\ Len(posts) = 3
    /\ days_per_chunk = 1
    /\ skipped = 1
    /\ all_event_ids # {}
    /\ posts[3].dateFrom = 3
    /\ posts[3].dateTo = 3

\* what the claim calls a known entry: the lower-cased, stripped name is a
\* canonical name of the registry, or the name of one of its members
KnownName(entries, name) ==
    \E i \in 1..Len(entries) :
        \/ lower(entries[i].canonical) = strip(lower(name))
        \/ lower(entries[i].member)
              = replace(replace(strip(lower(name)), " ", "_"), "-", "_")
EntriesOf(cls) == IF cls = "Country" THEN CountryEntries ELSE TimezoneEntries

\* C23: a lookup of a code or name that is no entry of its registry returns
\* None; the empty name is no entry of either registry.
C23_UnknownGivesNone ==
    ~IsNone(lookup)
        => LET q == Val(lookup)
           IN  /\ (q.by = "code" /\ q.arg \notin CodesOf(EntriesOf(q.cls)))
                     => IsNone(found)
               /\ (q.by = "name" /\ ~KnownName(EntriesOf(q.cls), q.arg))
                     => IsNone(found)
               /\ (q.by = "name" /\ q.arg = <<>>) => IsNone(found)

\* C26: a fetch issues at most retry_attempts POSTs, issues none after a
\* response with status 200 and a parsable body, returns no data when its
\* last attempt failed, and each wait before a retry is longer than the wait
\* before the retry that preceded it.
C26_BoundedRetriesGrowingWaits ==
    /\ job.posted <= job.retry_attempts
    /\ (job.pc = "post" /\ job.posted > 0) => job.last \notin {"json", "empty"}
    /\ (job.pc = "got" /\ job.last \notin {"json", "empty"})
          => /\ job.json_data = "none"
             /\ job.posted = job.retry_attempts
    /\ \A i \in 1..(Len(job.waits) - 1) : job.waits[i] < job.waits[i + 1]

\* C22: when the POST of a chunk other than the first goes out, a politeness
\* delay has elapsed since the fetch of the chunk before it returned.
C22_DelayBetweenChunks ==
    (job.pc = "post" /\ job.target = "chunk" /\ job.chunks > 1) => job.slept

====
